---- MODULE Spec2Model ----
(***************************************************************************)
(* Model of the Deno text-intelligence backend (src/server.ts).            *)
(*                                                                         *)
(* src/server.ts holds three variants of the server:                       *)
(*   variant 1 (lines 1-354)    POST /text-intelligence/analyze, frontend  *)
(*                              proxy / static files, SDK call that        *)
(*                              returns { result, error };                 *)
(*   variant 2 (lines 356-699)  the same endpoint with CORS, option        *)
(*                              translation and the { result, error }      *)
(*                              mapping;                                   *)
(*   variant 3 (lines 701-1115) POST /api/text-intelligence behind the JWT *)
(*                              session gate, SDK call that throws.        *)
(* A behaviour of the model is one running process of one variant, the     *)
(* clock, the tokens it has handed out and the requests it is handling,    *)
(* each advancing from one suspension point (await) to the next.           *)
(***************************************************************************)
EXTENDS Integers, Sequences, FiniteSets, TLC

VARIABLES variant, indexHtmlTemplate, now, tokens, pc, req, verifiedAt, calls,
          reply, exc, config, resp

vars == <<variant, indexHtmlTemplate, now, tokens, pc, req, verifiedAt, calls,
          reply, exc, config, resp>>

(***************************************************************************)
(* Bounds of the model.                                                    *)
(***************************************************************************)
\* seconds the clock advances in one Tick of the pipeline specification
TickSeconds == 3600
\* last clock value of the pipeline specification
MaxTime == 3600
\* tokens handed out in one behaviour of the pipeline specification
MaxTokens == 1
\* the same three for the session specification, with a finer clock
SessionTickSeconds == 1200
SessionMaxTime == 6000
SessionMaxTokens == 2

Variants == {1, 2, 3}
Slots == {"a", "b"}

(***************************************************************************)
(* JavaScript values, as far as the handlers tell them apart.              *)
(***************************************************************************)
Undefined == [t |-> "undefined"]
Null == [t |-> "null"]
Str(s) == [t |-> "string", v |-> s]
Bool(b) == [t |-> "boolean", v |-> b]
\* an object seen only through the names of its keys
Obj(keys) == [t |-> "object", keys |-> keys]
EmptyObj == Obj({})

\* ToBoolean: undefined, null, "" and false are falsy
Truthy(x) ==
  CASE x.t = "undefined" -> FALSE
    [] x.t = "null" -> FALSE
    [] x.t = "string" -> x.v /= ""
    [] x.t = "boolean" -> x.v
    [] OTHER -> TRUE

\* a || b
Or(a, b) == IF Truthy(a) THEN a ELSE b

\* JSON.stringify of an object: a key whose value is undefined is left out
Stringify(o) == [k \in {j \in DOMAIN o : o[j] /= Undefined} |-> o[k]]

(***************************************************************************)
(* Session tokens: jose.SignJWT / jose.jwtVerify with HS256.               *)
(***************************************************************************)
SESSION_SECRET_KEY == "session-secret"
\* JWT_EXPIRY = "1h", in seconds
JWT_EXPIRY == 3600

\* the HMAC of a payload under a key: equal only for equal key and payload
Sign(key, iat, exp) == [key |-> key, iat |-> iat, exp |-> exp]

\* createSessionToken at clock t: iat = t, exp = t + 1h, signed with the key
CreateSessionToken(t) ==
  [iat |-> t, exp |-> t + JWT_EXPIRY,
   sig |-> Sign(SESSION_SECRET_KEY, t, t + JWT_EXPIRY)]

\* a faulty verifySessionToken: the expiry is not checked
VerifyIgnoringExpiry(token, t) ==
  token.sig = Sign(SESSION_SECRET_KEY, token.iat, token.exp)

\* a faulty verifySessionToken: a token is still accepted in the second it
\* expires
VerifyInclusiveExpiry(token, t) ==
  /\ token.sig = Sign(SESSION_SECRET_KEY, token.iat, token.exp)
  /\ t <= token.exp

\* verifySessionToken at clock t: the signature verifies under the key and
\* the token is not expired (jose rejects exp <= now)
VerifySessionToken(token, t) ==
  /\ token.sig = Sign(SESSION_SECRET_KEY, token.iat, token.exp)
  /\ t < token.exp

\* tokens a client can present that the server did not issue
Garbage == [iat |-> 0, exp |-> 0, sig |-> Sign("", 0, 0)]
Forged(t) == [iat |-> t, exp |-> t + JWT_EXPIRY,
              sig |-> Sign("attacker-secret", t, t + JWT_EXPIRY)]
\* an issued token whose expiry was pushed back, its signature left as it was
Tampered(token) == [token EXCEPT !.exp = token.exp + JWT_EXPIRY]

(***************************************************************************)
(* Requests.                                                               *)
(***************************************************************************)
AnalysisPath(v) ==
  IF v = 3 THEN "/api/text-intelligence" ELSE "/text-intelligence/analyze"

\* the Authorization header: absent, or a scheme prefix followed by a token
NoAuth == [prefix |-> "", token |-> Garbage]
Basic == [prefix |-> "Basic ", token |-> Garbage]
Bearer(token) == [prefix |-> "Bearer ", token |-> token]

\* the request body: not JSON at all, the JSON value null, or a JSON object
\* with its text and url members (undefined when the key is missing)
Unparsable == [kind |-> "unparsable", text |-> Undefined, url |-> Undefined]
JsonNull == [kind |-> "null", text |-> Undefined, url |-> Undefined]
JsonObject(text, url) == [kind |-> "object", text |-> text, url |-> url]

TextValues == {Undefined, Str(""), Str("Hello world")}
UrlValues == {Undefined, Str(""), Str("https://example.com/a.txt")}
Bodies ==
  {Unparsable, JsonNull} \cup
  {JsonObject(t, u) : t \in TextValues, u \in UrlValues}

\* URLSearchParams.get: null when the parameter is missing
SummarizeValues == {Null, Str("true"), Str("v2"), Str("v1"), Str("other")}
FlagValues == {Null, Str("true"), Str("false")}
LanguageValues == {Null, Str(""), Str("es")}
Queries ==
  [summarize : SummarizeValues, topics : FlagValues, sentiment : FlagValues,
   intents : FlagValues, language : LanguageValues]

EmptyBody == JsonObject(Undefined, Undefined)
EmptyQuery ==
  [summarize |-> Null, topics |-> Null, sentiment |-> Null, intents |-> Null,
   language |-> Null]

Request(method, path, auth, body, query) ==
  [method |-> method, path |-> path, auth |-> auth, body |-> body,
   query |-> query]

NoRequest == Request("", "", NoAuth, EmptyBody, EmptyQuery)

Methods == {"GET", "POST", "OPTIONS"}
Paths ==
  {"/", "/api/session", "/api/metadata", "/api/text-intelligence",
   "/text-intelligence/analyze", "/favicon.ico"}

\* Authorization headers a client can send, knowing the tokens handed out
AuthHeaders(issued) ==
  {NoAuth, Basic, Bearer(Garbage), Bearer(Forged(0))} \cup
  {Bearer(k) : k \in issued} \cup {Bearer(Tampered(k)) : k \in issued}

(***************************************************************************)
(* Responses.                                                              *)
(***************************************************************************)
Response(status, ctype, body) ==
  [status |-> status, ctype |-> ctype, body |-> body]

JsonResponse(status, body) == Response(status, "application/json", body)

\* a response whose body is not JSON (empty, html, plain text, proxied)
RawResponse(status, ctype) == Response(status, ctype, [raw |-> ctype])

NoResponse == Response(0, "", [raw |-> ""])

\* a faulty envelope: the details member is left out
ErrorEnvelopeWithoutDetails(type, code, message) ==
  [error |-> [type |-> type, code |-> code, message |-> message]]

ErrorEnvelope(type, code, message) ==
  [error |-> [type |-> type, code |-> code, message |-> message,
              details |-> EmptyObj]]

(***************************************************************************)
(* Helper functions of the server.                                         *)
(***************************************************************************)
\* a faulty validateAnalysisInput: a body with both text and url passes
ValidateOnlyMissing(text, url) ==
  IF ~Truthy(text) /\ ~Truthy(url)
  THEN Str("Request must contain either 'text' or 'url' field")
  ELSE Null

\* validateAnalysisInput: the message of the failure, or null
ValidateAnalysisInput(text, url) ==
  IF ~Truthy(text) /\ ~Truthy(url)
  THEN Str("Request must contain either 'text' or 'url' field")
  ELSE IF Truthy(text) /\ Truthy(url)
  THEN Str("Request must contain only one of 'text' or 'url', not both")
  ELSE Null

\* an Error object, as far as the handlers read it
Error(message) == [message |-> message]
NoError == Error(Undefined)

\* a faulty formatErrorResponse: the defaults of a 400, whatever the status
FormatErrorResponseAs400(error, statusCode, code, type) ==
  JsonResponse(400,
    ErrorEnvelope("validation_error", "INVALID_TEXT",
      Or(error.message, Str("An error occurred during analysis")).v))

\* formatErrorResponse(error, statusCode = 500, code?, type?)
FormatErrorResponse(error, statusCode, code, type) ==
  JsonResponse(statusCode,
    ErrorEnvelope(
      Or(type, Str(IF statusCode = 400 THEN "validation_error"
                   ELSE "processing_error")).v,
      Or(code, Str(IF statusCode = 400 THEN "INVALID_TEXT"
                   ELSE "ANALYSIS_FAILED")).v,
      Or(error.message, Str("An error occurred during analysis")).v))

\* the catch block of handleAnalysis: formatErrorResponse(err as Error)
CatchAnalysisError(err) == FormatErrorResponse(err, 500, Undefined, Undefined)

(***************************************************************************)
(* Option translation: the options object built from the query string.     *)
(***************************************************************************)
FlagKeys == {"topics", "sentiment", "intents"}

\* variant 1: every parameter that is given and non-empty is set; a flag is
\* set to the boolean (value === "true"), summarize and language as given
OptionsV1(query) ==
  [k \in {j \in {"summarize", "language"} \cup FlagKeys : Truthy(query[j])} |->
     IF k \in FlagKeys THEN Bool(query[k] = Str("true")) ELSE query[k]]

SummarizeOption(summarize) ==
  IF summarize = Str("true") THEN Bool(TRUE) ELSE Str("v2")

\* variants 2 and 3: language always, summarize for "true" and "v2", a flag
\* only when its parameter is "true"
OptionsV2(query) ==
  [k \in {"language"}
         \cup {j \in {"summarize"} : query[j] \in {Str("true"), Str("v2")}}
         \cup {j \in FlagKeys : query[j] = Str("true")} |->
     IF k = "language" THEN Or(query.language, Str("en"))
     ELSE IF k = "summarize" THEN SummarizeOption(query.summarize)
     ELSE Bool(TRUE)]

Options(v, query) == IF v = 1 THEN OptionsV1(query) ELSE OptionsV2(query)

\* variants 2 and 3 reject summarize=v1; variant 1 has no such branch
RejectsSummarize(v, query) == v /= 1 /\ query.summarize = Str("v1")

V1_DEPRECATED ==
  "Summarization v1 is no longer supported. Please use v2 or true."

(***************************************************************************)
(* The remote analysis call.                                               *)
(***************************************************************************)
\* a faulty call: both members of the body are sent, whichever is given
RemoteCallBothMembers(v, text, textUrl, options) ==
  [api |-> IF v = 3 THEN "read.v1.text.analyze" ELSE "analyzeText",
   payload |-> [text |-> text, url |-> textUrl],
   options |-> options]

\* text ? analyzeText({ text }, options) : analyzeUrl({ url }, options);
\* variant 3: read.v1.text.analyze({ ...options, body: { text } | { url } })
RemoteCall(v, text, textUrl, options) ==
  [api |-> IF v = 3 THEN "read.v1.text.analyze"
           ELSE IF Truthy(text) THEN "analyzeText" ELSE "analyzeUrl",
   payload |-> IF Truthy(text) THEN [text |-> text] ELSE [url |-> textUrl],
   options |-> options]

\* what the provider's reply can be: an analysis result (with or without its
\* results member, or the JSON value null), an error the provider reports,
\* or a transport failure
AnalysisResults == Obj({"summary", "topics"})
ResultWithResults ==
  [t |-> "object", keys |-> {"metadata", "results"},
   results |-> AnalysisResults]
ResultWithoutResults ==
  [t |-> "object", keys |-> {"metadata"}, results |-> Undefined]

ErrorMessages == {"", "Bad URL supplied", "Text too short"}
TransportMessages == {"", "error sending request"}

Reply(kind, result, message) ==
  [kind |-> kind, result |-> result, message |-> message]

NoReply == Reply("", Null, "")

Replies ==
  {Reply("result", r, "") :
     r \in {ResultWithResults, ResultWithoutResults, Null}}
  \cup {Reply("error", Null, m) : m \in ErrorMessages}
  \cup {Reply("throw", Null, m) : m \in TransportMessages}

\* String.prototype.toLowerCase on the messages above
ToLowerCase(m) ==
  CASE m = "Bad URL supplied" -> "bad url supplied"
    [] m = "Text too short" -> "text too short"
    [] OTHER -> m

\* String.prototype.includes on the lower-cased messages above
Includes(m, needle) ==
  CASE m = "bad url supplied" -> needle \in {"url", "bad", "supplied"}
    [] m = "text too short" -> needle \in {"text", "too", "short"}
    [] OTHER -> FALSE

\* what comes back from the SDK call in the handler: a value or an exception.
\* SDK v4 (variants 1, 2) returns { result, error }; SDK v5 (variant 3)
\* returns the result and throws on an error the provider reports
Returned(value) == [threw |-> FALSE, value |-> value, error |-> NoError]
Thrown(message) ==
  [threw |-> TRUE, value |-> [result |-> Null, error |-> Null],
   error |-> Error(Str(message))]

SdkOutcome(v, answer) ==
  IF answer.kind = "throw" THEN Thrown(answer.message)
  ELSE IF answer.kind = "error"
  THEN IF v = 3 THEN Thrown(answer.message)
       ELSE Returned([result |-> Null,
                      error |-> [t |-> "object",
                                 message |-> answer.message]])
  ELSE Returned([result |-> answer.result, error |-> Null])

(***************************************************************************)
(* handleAnalysis, from one suspension point to the next.                  *)
(***************************************************************************)
\* the outcome of a stretch of handleAnalysis: a response, a remote call to
\* await, or both none yet; error is the exception its catch block caught
Outcome(r, c, e) == [resp |-> r, calls |-> c, error |-> e]

Caught(err) == Outcome(CatchAnalysisError(err), <<>>, err)

ValidationFailure(message) ==
  JsonResponse(400, ErrorEnvelope("validation_error", "INVALID_TEXT", message))

\* from the resolution of req.json() to the remote call or an early return
AnalysisStart(v, r) ==
  IF r.body.kind = "unparsable"
  THEN Caught(Error(Str("Unexpected token in JSON")))
  ELSE IF r.body.kind = "null"
  THEN Caught(Error(Str("Cannot destructure property 'text' of 'body'")))
  ELSE
    LET text == r.body.text
        textUrl == r.body.url
        validationError == ValidateAnalysisInput(text, textUrl)
    IN IF Truthy(validationError)
       THEN Outcome(ValidationFailure(validationError.v), <<>>, NoError)
       ELSE IF RejectsSummarize(v, r.query)
       THEN Outcome(ValidationFailure(V1_DEPRECATED), <<>>, NoError)
       ELSE Outcome(NoResponse,
                    <<RemoteCall(v, text, textUrl, Options(v, r.query))>>,
                    NoError)

\* { results: result.results || {} }; reading .results of null throws
SuccessResponse(result) ==
  IF result.t /= "object"
  THEN Caught(Error(Str("Cannot read properties of null")))
  ELSE Outcome(JsonResponse(200, [results |-> Or(result.results, EmptyObj)]),
               <<>>, NoError)

\* variant 2, if (error): 400 processing_error, INVALID_URL by the heuristic
SdkErrorResponse(error, textUrl) ==
  LET errorMsg == ToLowerCase(error.message)
      isUrlError == /\ Truthy(textUrl)
                    /\ \/ Includes(errorMsg, "url")
                       \/ Includes(errorMsg, "unreachable")
                       \/ Includes(errorMsg, "invalid")
                       \/ Includes(errorMsg, "malformed")
  IN JsonResponse(400,
       ErrorEnvelope("processing_error",
         IF isUrlError THEN "INVALID_URL" ELSE "INVALID_TEXT",
         IF error.message /= "" THEN error.message
         ELSE "Failed to process text"))

\* a faulty handleAnalysis: the call is issued again when the provider
\* reports an error or the call throws
AnalysisFinishRetry(v, r, answer) ==
  IF answer.kind \in {"error", "throw"}
  THEN Outcome(NoResponse,
               <<RemoteCall(v, r.body.text, r.body.url, Options(v, r.query))>>,
               NoError)
  ELSE SuccessResponse(answer.result)

\* from the resolution of the remote call to the response
AnalysisFinish(v, r, answer) ==
  LET out == SdkOutcome(v, answer)
  IN IF out.threw THEN Caught(out.error)
     ELSE IF v = 1
     THEN Outcome(JsonResponse(200, Stringify([results |-> out.value.result])),
                  <<>>, NoError)
     ELSE IF Truthy(out.value.error)
     THEN Outcome(SdkErrorResponse(out.value.error, r.body.url), <<>>, NoError)
     ELSE SuccessResponse(out.value.result)

(***************************************************************************)
(* The other handlers.                                                     *)
(***************************************************************************)
AuthError(code, message) ==
  JsonResponse(401,
    [error |-> [type |-> "AuthenticationError", code |-> code,
                message |-> message]])

MissingToken ==
  AuthError("MISSING_TOKEN",
            "Authorization header with Bearer token is required")
InvalidToken == AuthError("INVALID_TOKEN", "Invalid or expired session token")

NotFound ==
  JsonResponse(404, [error |-> Str("Not Found"),
                     message |-> Str("Endpoint not found")])

Preflight == RawResponse(204, "")

\* handleServeIndex: the template read at start-up, or a 404 in plain text
ServeIndex(template) ==
  IF template THEN RawResponse(200, "text/html")
  ELSE RawResponse(404, "text/plain")

\* handleMetadata on the three states deepgram.toml can be in
MetaSection ==
  [title |-> Str("Deno Text Intelligence"), useCase |-> Str("text")]
ConfigFiles == {"unreadable", "nometa", "meta"}
\* a faulty handleMetadata: a file without the section is answered 200 with
\* an empty mapping
MetadataWithoutCheck(file) ==
  IF file = "unreadable"
  THEN JsonResponse(500,
         [error |-> Str("INTERNAL_SERVER_ERROR"),
          message |-> Str("Failed to read metadata from deepgram.toml")])
  ELSE IF file = "nometa" THEN JsonResponse(200, EmptyObj)
  ELSE JsonResponse(200, MetaSection)

Metadata(file) ==
  IF file = "unreadable"
  THEN JsonResponse(500,
         [error |-> Str("INTERNAL_SERVER_ERROR"),
          message |-> Str("Failed to read metadata from deepgram.toml")])
  ELSE IF file = "nometa"
  THEN JsonResponse(500,
         [error |-> Str("INTERNAL_SERVER_ERROR"),
          message |-> Str("Missing [meta] section in deepgram.toml")])
  ELSE JsonResponse(200, MetaSection)

\* variant 1, handleFrontend: the proxied or static answer, a 404 or a 502
FrontendResponses ==
  {RawResponse(200, "text/html"), RawResponse(404, "text/plain"),
   RawResponse(502, "text/plain")}

\* a faulty handleRequest: the analysis endpoint of variant 3 is handed to
\* handleAnalysis without checkAuth
RouteWithoutGate(v, template, r) ==
  IF v /= 1 /\ r.method = "OPTIONS" THEN [pc |-> "done", resp |-> Preflight]
  ELSE IF v = 3 /\ r.path \in {"/", "/index.html"}
  THEN [pc |-> "done", resp |-> ServeIndex(template)]
  ELSE IF v = 3 /\ r.method = "GET" /\ r.path = "/api/session"
  THEN [pc |-> "sign", resp |-> NoResponse]
  ELSE IF r.method = "POST" /\ r.path = AnalysisPath(v)
  THEN [pc |-> "json", resp |-> NoResponse]
  ELSE IF r.method = "GET" /\ r.path = "/api/metadata"
  THEN [pc |-> "readfile", resp |-> NoResponse]
  ELSE IF v = 1 THEN [pc |-> "frontend", resp |-> NoResponse]
  ELSE [pc |-> "done", resp |-> NotFound]

\* handleRequest up to its first suspension point: where the request waits
\* next (pc) and the response, when it is answered at once
Route(v, template, r) ==
  IF v /= 1 /\ r.method = "OPTIONS" THEN [pc |-> "done", resp |-> Preflight]
  ELSE IF v = 3 /\ r.path \in {"/", "/index.html"}
  THEN [pc |-> "done", resp |-> ServeIndex(template)]
  ELSE IF v = 3 /\ r.method = "GET" /\ r.path = "/api/session"
  THEN [pc |-> "sign", resp |-> NoResponse]
  ELSE IF r.method = "POST" /\ r.path = AnalysisPath(v)
  THEN IF v /= 3 THEN [pc |-> "json", resp |-> NoResponse]
       ELSE IF r.auth.prefix /= "Bearer "
       THEN [pc |-> "done", resp |-> MissingToken]
       ELSE [pc |-> "verify", resp |-> NoResponse]
  ELSE IF r.method = "GET" /\ r.path = "/api/metadata"
  THEN [pc |-> "readfile", resp |-> NoResponse]
  ELSE IF v = 1 THEN [pc |-> "frontend", resp |-> NoResponse]
  ELSE [pc |-> "done", resp |-> NotFound]

(***************************************************************************)
(* State machine.                                                          *)
(***************************************************************************)
Done(s, response) ==
  /\ pc' = [pc EXCEPT ![s] = "done"]
  /\ resp' = [resp EXCEPT ![s] = response]

\* handleRequest is entered with request r and runs to its first await; a
\* request for a session token arrives only while fewer than maxTokens
\* tokens are handed out or about to be
Receive(s, r, maxTokens) ==
  /\ pc[s] = "idle"
  /\ LET route == Route(variant, indexHtmlTemplate, r)
     IN /\ route.pc = "sign" =>
             Cardinality(tokens) + Cardinality({o \in Slots : pc[o] = "sign"})
               < maxTokens
        /\ pc' = [pc EXCEPT ![s] = route.pc]
        /\ resp' = [resp EXCEPT ![s] = route.resp]
  /\ req' = [req EXCEPT ![s] = r]
  /\ UNCHANGED <<variant, indexHtmlTemplate, now, tokens, verifiedAt, calls,
                 reply, exc, config>>

\* checkAuth after its header test: jwtVerify reads the clock and decides;
\* on success handleAnalysis starts and awaits req.json()
VerifyToken(s) ==
  /\ pc[s] = "verify"
  /\ verifiedAt' = [verifiedAt EXCEPT ![s] = now]
  /\ IF VerifySessionToken(req[s].auth.token, now)
     THEN /\ pc' = [pc EXCEPT ![s] = "json"]
          /\ UNCHANGED resp
     ELSE Done(s, InvalidToken)
  /\ UNCHANGED <<variant, indexHtmlTemplate, now, tokens, req, calls, reply,
                 exc, config>>

\* a faulty handleAnalysis: the parsed body is kept in a module-level
\* variable, which a request in flight at the same time overwrites
ParseBodyOfLatest(s) ==
  /\ pc[s] = "json"
  /\ LET others == {o \in Slots \ {s} : pc[o] \in {"json", "remote"}}
         r == IF others = {} THEN req[s]
              ELSE [req[s] EXCEPT !.body = req[CHOOSE o \in others : TRUE].body]
         out == AnalysisStart(variant, r)
     IN /\ calls' = [calls EXCEPT ![s] = out.calls]
        /\ exc' = [exc EXCEPT ![s] = out.error]
        /\ IF out.calls /= <<>>
           THEN /\ pc' = [pc EXCEPT ![s] = "remote"]
                /\ UNCHANGED resp
           ELSE Done(s, out.resp)
  /\ UNCHANGED <<variant, indexHtmlTemplate, now, tokens, req, verifiedAt,
                 reply, config>>

\* req.json() resolves or rejects; validation, option translation and the
\* start of the remote call follow without suspension
ParseBody(s) ==
  /\ pc[s] = "json"
  /\ LET out == AnalysisStart(variant, req[s])
     IN /\ calls' = [calls EXCEPT ![s] = out.calls]
        /\ exc' = [exc EXCEPT ![s] = out.error]
        /\ IF out.calls /= <<>>
           THEN /\ pc' = [pc EXCEPT ![s] = "remote"]
                /\ UNCHANGED resp
           ELSE Done(s, out.resp)
  /\ UNCHANGED <<variant, indexHtmlTemplate, now, tokens, req, verifiedAt,
                 reply, config>>

\* a faulty handleAnalysis: after the reply it awaits something that never
\* settles
RemoteReplyThenHang(s, answer) ==
  /\ pc[s] = "remote"
  /\ reply' = [reply EXCEPT ![s] = answer]
  /\ UNCHANGED <<variant, indexHtmlTemplate, now, tokens, pc, req, verifiedAt,
                 calls, exc, config, resp>>

\* the remote call resolves or rejects with reply
RemoteReply(s, answer) ==
  /\ pc[s] = "remote"
  /\ reply' = [reply EXCEPT ![s] = answer]
  /\ LET out == AnalysisFinish(variant, req[s], answer)
     IN /\ calls' = [calls EXCEPT ![s] = calls[s] \o out.calls]
        /\ exc' = [exc EXCEPT ![s] = out.error]
        /\ IF out.calls /= <<>>
           THEN UNCHANGED <<pc, resp>>
           ELSE Done(s, out.resp)
  /\ UNCHANGED <<variant, indexHtmlTemplate, now, tokens, req, verifiedAt,
                 config>>

\* handleGetSession: createSessionToken reads the clock and signs
SignToken(s) ==
  /\ pc[s] = "sign"
  /\ LET token == CreateSessionToken(now)
     IN /\ tokens' = tokens \cup {token}
        /\ Done(s, JsonResponse(200, [token |-> token]))
  /\ UNCHANGED <<variant, indexHtmlTemplate, now, req, verifiedAt, calls,
                 reply, exc, config>>

\* handleMetadata: deepgram.toml is read and parsed
ReadMetadata(s, file) ==
  /\ pc[s] = "readfile"
  /\ config' = [config EXCEPT ![s] = file]
  /\ Done(s, Metadata(file))
  /\ UNCHANGED <<variant, indexHtmlTemplate, now, tokens, req, verifiedAt,
                 calls, reply, exc>>

\* variant 1, handleFrontend: the proxy or the file read answers
ServeFrontend(s, response) ==
  /\ pc[s] = "frontend"
  /\ Done(s, response)
  /\ UNCHANGED <<variant, indexHtmlTemplate, now, tokens, req, verifiedAt,
                 calls, reply, exc, config>>

\* the response is sent; nothing of the request is kept
Respond(s) ==
  /\ pc[s] = "done"
  /\ pc' = [pc EXCEPT ![s] = "idle"]
  /\ req' = [req EXCEPT ![s] = NoRequest]
  /\ verifiedAt' = [verifiedAt EXCEPT ![s] = -1]
  /\ calls' = [calls EXCEPT ![s] = <<>>]
  /\ reply' = [reply EXCEPT ![s] = NoReply]
  /\ exc' = [exc EXCEPT ![s] = NoError]
  /\ config' = [config EXCEPT ![s] = ""]
  /\ resp' = [resp EXCEPT ![s] = NoResponse]
  /\ UNCHANGED <<variant, indexHtmlTemplate, now, tokens>>

\* the clock advances
Tick(step, max) ==
  /\ now + step <= max
  /\ now' = now + step
  /\ UNCHANGED <<variant, indexHtmlTemplate, tokens, pc, req, verifiedAt,
                 calls, reply, exc, config, resp>>

Init ==
  /\ variant \in Variants
  /\ indexHtmlTemplate \in (IF variant = 3 THEN BOOLEAN ELSE {FALSE})
  /\ now = 0
  /\ tokens = {}
  /\ pc = [s \in Slots |-> "idle"]
  /\ req = [s \in Slots |-> NoRequest]
  /\ verifiedAt = [s \in Slots |-> -1]
  /\ calls = [s \in Slots |-> <<>>]
  /\ reply = [s \in Slots |-> NoReply]
  /\ exc = [s \in Slots |-> NoError]
  /\ config = [s \in Slots |-> ""]
  /\ resp = [s \in Slots |-> NoResponse]

\* a request on the analysis endpoint of the running variant arrives
ReceiveAnalysis(s, auths, bodies, queries, maxTokens) ==
  /\ pc[s] = "idle"
  /\ \E a \in auths, b \in bodies, q \in queries :
       Receive(s, Request("POST", AnalysisPath(variant), a, b, q), maxTokens)

\* a request for another route, or with another method, arrives
ReceiveOther(s, methods, paths, maxTokens) ==
  /\ pc[s] = "idle"
  /\ \E m \in methods, p \in paths :
       Receive(s, Request(m, p, NoAuth, EmptyBody, EmptyQuery), maxTokens)

\* the Authorization headers of the requests on the analysis endpoint: only
\* variant 3 reads the header
Auths == IF variant = 3 THEN AuthHeaders(tokens) ELSE {NoAuth}

PipelineSlots == {"a"}

\* the pipeline specification: one request at a time, with every body and
\* every query on the analysis endpoint
Next ==
  \/ Tick(TickSeconds, MaxTime)
  \/ \E s \in PipelineSlots :
       \/ ReceiveAnalysis(s, Auths, Bodies, Queries, MaxTokens)
       \/ ReceiveOther(s, Methods, Paths, MaxTokens)
       \/ VerifyToken(s)
       \/ ParseBody(s)
       \/ \E answer \in Replies : RemoteReply(s, answer)
       \/ SignToken(s)
       \/ \E file \in ConfigFiles : ReadMetadata(s, file)
       \/ \E response \in FrontendResponses : ServeFrontend(s, response)
       \/ Respond(s)

Spec == Init /\ [][Next]_vars

\* the session specification: variant 3 with two requests in flight, a finer
\* clock and more tokens, on the analysis endpoint and GET /api/session
SessionBodies == {JsonObject(Str("Hello world"), Undefined), EmptyBody}
SessionReplies == {Reply("result", ResultWithResults, "")}

InitSession == Init /\ variant = 3 /\ indexHtmlTemplate

NextSession ==
  \/ Tick(SessionTickSeconds, SessionMaxTime)
  \/ \E s \in Slots :
       \/ ReceiveAnalysis(s, Auths, SessionBodies, {EmptyQuery},
                          SessionMaxTokens)
       \/ ReceiveOther(s, {"GET"}, {"/api/session"}, SessionMaxTokens)
       \/ VerifyToken(s)
       \/ ParseBody(s)
       \/ \E answer \in SessionReplies : RemoteReply(s, answer)
       \/ SignToken(s)
       \/ Respond(s)

SpecSession == InitSession /\ [][NextSession]_vars

\* the concurrent specification: every variant with two requests in flight
\* on every route, with fewer bodies, queries and replies
ConcurrentBodies ==
  {JsonObject(Str("Hello world"), Undefined),
   JsonObject(Undefined, Str("https://example.com/a.txt")),
   JsonNull}
ConcurrentQueries ==
  {EmptyQuery,
   [summarize |-> Str("v1"), topics |-> Str("true"), sentiment |-> Null,
    intents |-> Null, language |-> Str("es")]}
ConcurrentReplies ==
  {Reply("result", ResultWithResults, ""),
   Reply("error", Null, "Bad URL supplied"),
   Reply("throw", Null, "error sending request")}

NextConcurrent ==
  \/ Tick(TickSeconds, MaxTime)
  \/ \E s \in Slots :
       \/ ReceiveAnalysis(s, Auths, ConcurrentBodies, ConcurrentQueries,
                          MaxTokens)
       \/ ReceiveOther(s, Methods, Paths, MaxTokens)
       \/ VerifyToken(s)
       \/ ParseBody(s)
       \/ \E answer \in ConcurrentReplies : RemoteReply(s, answer)
       \/ SignToken(s)
       \/ \E file \in ConfigFiles : ReadMetadata(s, file)
       \/ \E response \in FrontendResponses : ServeFrontend(s, response)
       \/ Respond(s)

SpecConcurrent == Init /\ [][NextConcurrent]_vars

\* the concurrent specification with the awaits of a handler settling: the
\* token check, req.json(), the signing, the file read and the frontend
\* settle by themselves, the remote call returns or throws in the end
SpecLive ==
  /\ Init
  /\ [][NextConcurrent]_vars
  /\ \A s \in Slots :
       /\ WF_vars(VerifyToken(s))
       /\ WF_vars(ParseBody(s))
       /\ WF_vars(\E answer \in ConcurrentReplies : RemoteReply(s, answer))
       /\ WF_vars(SignToken(s))
       /\ WF_vars(\E file \in ConfigFiles : ReadMetadata(s, file))
       /\ WF_vars(\E response \in FrontendResponses :
                    ServeFrontend(s, response))

(***************************************************************************)
(* Properties.                                                             *)
(***************************************************************************)
Answered(s) == pc[s] = "done"

OnAnalysisEndpoint(s) ==
  req[s].method = "POST" /\ req[s].path = AnalysisPath(variant)

\* the request was handed to handleAnalysis: it is on the analysis endpoint
\* and, in variant 3, the auth gate let it through
ReachedHandleAnalysis(s) ==
  /\ OnAnalysisEndpoint(s)
  /\ pc[s] \in {"json", "remote", "done"}
  /\ (variant = 3 /\ pc[s] = "done") => resp[s].status /= 401

\* a JSON response whose body is { error: { type, code, ... } }
IsError(r, status, type, code) ==
  /\ r.status = status
  /\ r.ctype = "application/json"
  /\ DOMAIN r.body = {"error"}
  /\ r.body.error.type = type
  /\ r.body.error.code = code

\* a member of the body that is given and not empty
Given(x) == x.t = "string" /\ x.v /= ""

BothOrNeither(body) == Given(body.text) <=> Given(body.url)

ExactlyOne(body) == body.kind = "object" /\ ~BothOrNeither(body)

\* C1 as stated: every request that reaches handleAnalysis with a JSON body
\* that has both text and url, or neither, is answered 400 validation_error
\* INVALID_TEXT. (Fails: the JSON body null has neither and is answered 500.)
C1_AsStated ==
  \A s \in Slots :
    (Answered(s) /\ ReachedHandleAnalysis(s)
       /\ req[s].body.kind /= "unparsable" /\ BothOrNeither(req[s].body))
    => IsError(resp[s], 400, "validation_error", "INVALID_TEXT")

\* C1 (amended): every request that reaches handleAnalysis with a JSON body
\* other than null in which text and url are both given and non-empty, or
\* both missing or empty, is answered 400 validation_error INVALID_TEXT
\* without a remote call, whatever the query parameters are.
C1_BothOrNeitherIs400 ==
  \A s \in Slots :
    (Answered(s) /\ ReachedHandleAnalysis(s)
       /\ req[s].body.kind = "object" /\ BothOrNeither(req[s].body))
    => /\ IsError(resp[s], 400, "validation_error", "INVALID_TEXT")
       /\ resp[s].body.error.message \in
            {"Request must contain either 'text' or 'url' field",
             "Request must contain only one of 'text' or 'url', not both"}
       /\ calls[s] = <<>>

C1_Witness ==
  \E s \in Slots :
    /\ Answered(s) /\ ReachedHandleAnalysis(s)
    /\ variant = 3
    /\ Given(req[s].body.text) /\ Given(req[s].body.url)
    /\ req[s].query.summarize = Str("v1")
    /\ req[s].query.topics = Str("true")
    /\ resp[s].status = 400

\* C2 as stated: a request with summarize=v1 and exactly one of text/url is
\* answered 400 with the v1 message, and "v1" is never forwarded to the
\* remote call. (Fails in variant 1, which forwards the value as given.)
C2_AsStated ==
  \A s \in Slots :
    (ReachedHandleAnalysis(s) /\ ExactlyOne(req[s].body)
       /\ req[s].query.summarize = Str("v1"))
    => /\ \A i \in 1..Len(calls[s]) :
            "summarize" \in DOMAIN calls[s][i].options
              => calls[s][i].options.summarize /= Str("v1")
       /\ Answered(s) =>
            /\ resp[s].status = 400
            /\ DOMAIN resp[s].body = {"error"}
            /\ resp[s].body.error.message = V1_DEPRECATED

\* C3 as stated: the options of the remote call hold a flag, with value
\* true, exactly when its query parameter is "true", and never hold it with
\* value false. (Fails in variant 1, which sets topics=false to false.)
C3_AsStated ==
  \A s \in Slots :
    \A i \in 1..Len(calls[s]) :
      \A f \in FlagKeys :
        /\ f \in DOMAIN calls[s][i].options <=> req[s].query[f] = Str("true")
        /\ f \in DOMAIN calls[s][i].options
             => calls[s][i].options[f] = Bool(TRUE)

SignatureVerifies(token) ==
  token.sig.key = SESSION_SECRET_KEY /\ token.sig.iat = token.iat
    /\ token.sig.exp = token.exp

\* C4: in variant 3 a POST to the analysis endpoint whose Authorization
\* header is missing or does not start with "Bearer " is answered 401
\* AuthenticationError MISSING_TOKEN; one whose bearer token has a signature
\* that does not verify, or has expired when it is verified, is answered 401
\* AuthenticationError INVALID_TOKEN.
C4_AuthGate ==
  \A s \in Slots :
    (variant = 3 /\ OnAnalysisEndpoint(s) /\ pc[s] \notin {"idle", "verify"})
    => /\ req[s].auth.prefix /= "Bearer "
            => /\ Answered(s)
               /\ IsError(resp[s], 401, "AuthenticationError", "MISSING_TOKEN")
       /\ (/\ req[s].auth.prefix = "Bearer "
           /\ \/ ~SignatureVerifies(req[s].auth.token)
              \/ verifiedAt[s] >= req[s].auth.token.exp)
            => /\ Answered(s)
               /\ IsError(resp[s], 401, "AuthenticationError", "INVALID_TOKEN")

C4_Witness ==
  \E s \in Slots :
    /\ variant = 3 /\ OnAnalysisEndpoint(s) /\ Answered(s)
    /\ req[s].auth.token \in tokens
    /\ verifiedAt[s] >= req[s].auth.token.exp
    /\ resp[s].status = 401
    /\ resp[s].body.error.code = "INVALID_TOKEN"

\* the request carries a token that GET /api/session returned, and jwtVerify
\* has looked at it
PresentsIssuedToken(s) ==
  /\ OnAnalysisEndpoint(s)
  /\ req[s].auth.prefix = "Bearer "
  /\ req[s].auth.token \in tokens
  /\ pc[s] \notin {"idle", "verify"}

\* C5: a token returned by GET /api/session passes the auth gate whenever it
\* is verified less than one hour after its issuance, whatever was issued or
\* requested in between, and is answered 401 INVALID_TOKEN whenever it is
\* verified one hour after its issuance or later.
C5_TokenRoundTrip ==
  \A s \in Slots :
    PresentsIssuedToken(s)
    => /\ req[s].auth.token.iat <= verifiedAt[s]
       /\ verifiedAt[s] < req[s].auth.token.iat + JWT_EXPIRY
            => ~(Answered(s) /\ resp[s].status = 401)
       /\ verifiedAt[s] >= req[s].auth.token.iat + JWT_EXPIRY
            => /\ Answered(s)
               /\ IsError(resp[s], 401, "AuthenticationError", "INVALID_TOKEN")

\* one token, issued at 0: accepted for one request late in its window, after
\* another token was issued, and rejected for another request once expired
C5_Witness ==
  \E s \in Slots, o \in Slots :
    /\ PresentsIssuedToken(s) /\ PresentsIssuedToken(o)
    /\ req[s].auth.token = req[o].auth.token
    /\ Cardinality(tokens) > 1
    /\ verifiedAt[s] > req[s].auth.token.iat
    /\ pc[s] = "remote"
    /\ verifiedAt[o] >= req[o].auth.token.exp
    /\ resp[o].status = 401

\* C6 as stated: when the provider reports an error the response is 400
\* processing_error with code INVALID_TEXT (INVALID_URL only in url mode) and
\* the provider's message; never a 500. (Fails in variant 3, where the SDK
\* throws and the catch block answers 500, and in variant 1, which answers
\* 200.)
C6_AsStated ==
  \A s \in Slots :
    (Answered(s) /\ reply[s].kind = "error")
    => /\ resp[s].status = 400
       /\ DOMAIN resp[s].body = {"error"}
       /\ resp[s].body.error.type = "processing_error"
       /\ \/ resp[s].body.error.code = "INVALID_TEXT"
          \/ /\ resp[s].body.error.code = "INVALID_URL"
             /\ Given(req[s].body.url)
       /\ reply[s].message /= ""
            => resp[s].body.error.message = reply[s].message

FALLBACK_MESSAGE == "An error occurred during analysis"

\* C7: an exception thrown in handleAnalysis (req.json() rejecting, the
\* destructuring of a null body, the remote call throwing, a result that is
\* null) is caught and answered 500 processing_error ANALYSIS_FAILED with
\* the exception's message, or the fallback text when it has none.
C7_ExceptionIs500 ==
  \A s \in Slots :
    Answered(s) =>
      /\ (\/ exc[s] /= NoError
          \/ ReachedHandleAnalysis(s) /\ req[s].body.kind /= "object"
          \/ reply[s].kind = "throw")
           => /\ IsError(resp[s], 500, "processing_error", "ANALYSIS_FAILED")
              /\ resp[s].body.error.details = EmptyObj
              /\ exc[s] /= NoError
              /\ resp[s].body.error.message =
                   (IF Given(exc[s].message) THEN exc[s].message.v
                    ELSE FALLBACK_MESSAGE)
      /\ reply[s].kind = "throw" => exc[s].message = Str(reply[s].message)

C7_Witness ==
  \E s \in Slots :
    /\ Answered(s)
    /\ reply[s].kind = "throw" /\ reply[s].message = ""
    /\ resp[s].status = 500
    /\ resp[s].body.error.message = FALLBACK_MESSAGE

\* C8 as stated: when the remote call succeeds the response is 200 and its
\* body has the one key results, holding the analysis results unmodified, or
\* the empty mapping when there are none. (Fails in variant 1, which puts the
\* SDK's whole result object under results and has no fallback.)
C8_AsStated ==
  \A s \in Slots :
    (Answered(s) /\ reply[s].kind = "result" /\ reply[s].result.t = "object")
    => /\ resp[s].status = 200
       /\ DOMAIN resp[s].body = {"results"}
       /\ resp[s].body.results =
            (IF reply[s].result.results = Undefined THEN EmptyObj
             ELSE reply[s].result.results)

\* the text/url validator fails for the body of the request
FailsValidator(body) == body.kind = "object" /\ BothOrNeither(body)

\* C9 as stated: no remote call is ever issued for a request that fails the
\* text/url validator or carries summarize=v1. (Fails in variant 1, which
\* forwards summarize=v1: the code bug of C2.)
C9_AsStated ==
  \A s \in Slots :
    (FailsValidator(req[s].body) \/ req[s].query.summarize = Str("v1"))
    => calls[s] = <<>>

\* C10: a request causes at most one remote call; once the call has returned
\* an error or thrown, the request is answered and no second call is issued.
C10_AtMostOneCall ==
  \A s \in Slots :
    /\ Len(calls[s]) <= 1
    /\ reply[s] /= NoReply => Answered(s) /\ Len(calls[s]) = 1
    /\ pc[s] = "remote" => Len(calls[s]) = 1 /\ reply[s] = NoReply

C10_Witness ==
  \E s \in Slots :
    /\ Answered(s)
    /\ reply[s].kind \in {"error", "throw"}
    /\ Len(calls[s]) = 1

\* C11: a remote call is issued only for a request whose body has exactly
\* one of text and url given and non-empty; its payload has one member, the
\* text of the body when that is given and the url of the body otherwise,
\* and it carries the options built from the query.
C11_PayloadIsTheGivenOne ==
  \A s \in Slots :
    \A i \in 1..Len(calls[s]) :
      LET call == calls[s][i]
          body == req[s].body
      IN /\ ExactlyOne(body)
         /\ DOMAIN call.payload = (IF Given(body.text) THEN {"text"}
                                   ELSE {"url"})
         /\ Given(body.text) => call.payload.text = body.text
         /\ ~Given(body.text) =>
              Given(body.url) /\ call.payload.url = body.url
         /\ call.options = Options(variant, req[s].query)

\* a call with the url payload for a body whose text is the empty string
C11_Witness ==
  \E s \in Slots :
    /\ Answered(s)
    /\ Len(calls[s]) = 1
    /\ req[s].body.text = Str("")
    /\ calls[s][1].payload = [url |-> Str("https://example.com/a.txt")]
    /\ "topics" \in DOMAIN calls[s][1].options

OnMetadataOrUnknownRoute(s) ==
  /\ ~OnAnalysisEndpoint(s)
  /\ req[s].method /= "OPTIONS" \/ variant = 1
  /\ ~(variant = 3 /\ (req[s].path \in {"/", "/index.html"}
                         \/ (req[s].method = "GET"
                             /\ req[s].path = "/api/session")))
  /\ variant = 1 => (req[s].method = "GET" /\ req[s].path = "/api/metadata")

C13_AsStated ==
  \A s \in Slots :
    \A i \in 1..Len(calls[s]) :
      /\ "language" \in DOMAIN calls[s][i].options
      /\ calls[s][i].options.language =
           (IF Given(req[s].query.language) THEN req[s].query.language
            ELSE Str("en"))

\* C14 as stated: a request with one of text/url and a summarize parameter
\* other than "v1" reaches the remote call, and the options hold summarize
\* as boolean true for "true", as "v2" for "v2" and not at all for an absent
\* parameter or any other value. (Fails in variant 1, which forwards the
\* parameter as the string it was given.)
C14_AsStated ==
  \A s \in Slots :
    (ReachedHandleAnalysis(s) /\ pc[s] \in {"remote", "done"}
       /\ ExactlyOne(req[s].body) /\ req[s].query.summarize /= Str("v1"))
    => /\ Len(calls[s]) = 1
       /\ LET options == calls[s][1].options
              summarize == req[s].query.summarize
          IN /\ summarize = Str("true") =>
                  /\ "summarize" \in DOMAIN options
                  /\ options.summarize = Bool(TRUE)
             /\ summarize = Str("v2") =>
                  /\ "summarize" \in DOMAIN options
                  /\ options.summarize = Str("v2")
             /\ summarize \notin {Str("true"), Str("v2")} =>
                  "summarize" \notin DOMAIN options

OnMetadataEndpoint(s) ==
  req[s].method = "GET" /\ req[s].path = "/api/metadata"

\* C15: GET /api/metadata is answered without a bearer token and without
\* passing the auth gate: 200 with the meta section of deepgram.toml as the
\* JSON body when the file has the section, 500 with the message "Missing
\* [meta] section in deepgram.toml" when the file parses without it, and
\* 500 when the file cannot be read or parsed.
C15_Metadata ==
  \A s \in Slots :
    OnMetadataEndpoint(s) =>
      /\ pc[s] \in {"readfile", "done"}
      /\ verifiedAt[s] = -1
      /\ Answered(s) =>
           /\ resp[s].ctype = "application/json"
           /\ config[s] \in ConfigFiles
           /\ config[s] = "meta" =>
                resp[s].status = 200 /\ resp[s].body = MetaSection
           /\ config[s] = "nometa" =>
                /\ resp[s].status = 500
                /\ resp[s].body.message =
                     Str("Missing [meta] section in deepgram.toml")
           /\ config[s] = "unreadable" => resp[s].status = 500

\* the session-gated variant answers a file without the section, for a
\* request that carries no Authorization header
C15_Witness ==
  \E s \in Slots :
    /\ Answered(s) /\ OnMetadataEndpoint(s)
    /\ variant = 3
    /\ req[s].auth = NoAuth
    /\ config[s] = "nometa"
    /\ resp[s].status = 500

\* the response handleRequest gives request r when no other request is in
\* flight: t is the clock read by the auth gate, answer the reply to the
\* request's own remote call, file what its own read of deepgram.toml found
HandledAlone(v, template, r, t, answer, file) ==
  LET route == Route(v, template, r)
      start == AnalysisStart(v, r)
  IN IF route.pc = "done" THEN route.resp
     ELSE IF route.pc = "readfile" THEN Metadata(file)
     ELSE IF route.pc = "verify" /\ ~VerifySessionToken(r.auth.token, t)
     THEN InvalidToken
     ELSE IF start.calls = <<>> THEN start.resp
     ELSE AnalysisFinish(v, r, answer).resp

\* the per-request state of slot s
Frame(s) ==
  <<pc[s], req[s], verifiedAt[s], calls[s], reply[s], exc[s], config[s],
    resp[s]>>

\* C16: with two requests in flight under any interleaving, the response to
\* each is the one it gets when handled alone, a function of the request,
\* the variant's configuration and key, the clock read by its own token
\* check, the reply to its own remote call and its own read of the
\* configuration file (a session response carries a token signed at a time
\* up to now, a frontend response is the one the proxy or file gave); its
\* remote call is the one built from its own body and query; and no step
\* of one request changes the state of the other or the start-up state.
C16_NoInterference ==
  /\ [](\A s \in Slots :
          LET route == Route(variant, indexHtmlTemplate, req[s])
          IN /\ calls[s] \in {<<>>, AnalysisStart(variant, req[s]).calls}
             /\ Answered(s) =>
                  IF route.pc = "sign"
                  THEN \E token \in tokens :
                         /\ token = CreateSessionToken(token.iat)
                         /\ token.iat <= now
                         /\ resp[s] = JsonResponse(200, [token |-> token])
                  ELSE IF route.pc = "frontend"
                  THEN resp[s] \in FrontendResponses
                  ELSE resp[s] = HandledAlone(variant, indexHtmlTemplate,
                                              req[s], verifiedAt[s],
                                              reply[s], config[s]))
  /\ [][/\ variant' = variant
        /\ indexHtmlTemplate' = indexHtmlTemplate
        /\ \A s \in Slots :
             Frame(s)' /= Frame(s) =>
               \A o \in Slots \ {s} : Frame(o)' = Frame(o)]_vars

\* two different requests handled at the same time, one answered 200 and
\* the other 500
C16_Witness ==
  /\ Answered("a") /\ Answered("b")
  /\ ReachedHandleAnalysis("a") /\ ReachedHandleAnalysis("b")
  /\ req["a"].body /= req["b"].body
  /\ resp["a"].status = 200
  /\ resp["b"].status = 500

\* the auth gate has verified the bearer token of the request: the signature
\* is the key's and the expiry lay after the clock it was checked against
TokenVerified(s) ==
  /\ req[s].auth.prefix = "Bearer "
  /\ verifiedAt[s] /= -1
  /\ SignatureVerifies(req[s].auth.token)
  /\ verifiedAt[s] < req[s].auth.token.exp

\* handleAnalysis has touched the request: the body is being or was parsed,
\* an exception was caught, or a remote call was issued or answered
Touched(s) ==
  \/ pc[s] \in {"json", "remote"}
  \/ calls[s] /= <<>>
  \/ reply[s] /= NoReply
  \/ exc[s] /= NoError

\* C17: in variant 3, on the analysis endpoint, the body is parsed,
\* validated or forwarded only after the bearer token's signature and
\* expiry were verified: handleAnalysis starts only in the step in which
\* the token check succeeds, and a request whose token is missing,
\* malformed, tampered or expired is answered 401 with its body never
\* parsed and no remote call issued, whatever its body and query are.
C17_GateFirst ==
  /\ [](\A s \in Slots :
          (variant = 3 /\ OnAnalysisEndpoint(s)) =>
            /\ Touched(s) => TokenVerified(s)
            /\ (Answered(s) /\ resp[s].status /= 401) => TokenVerified(s)
            /\ (pc[s] \notin {"idle", "verify"} /\ ~TokenVerified(s)) =>
                 /\ Answered(s) /\ resp[s].status = 401
                 /\ ~Touched(s))
  /\ [][\A s \in Slots :
          (variant = 3 /\ pc[s] /= "json" /\ pc'[s] = "json") =>
            /\ pc[s] = "verify"
            /\ req'[s] = req[s]
            /\ req[s].auth.prefix = "Bearer "
            /\ SignatureVerifies(req[s].auth.token)
            /\ now < req[s].auth.token.exp
            /\ verifiedAt'[s] = now]_vars

\* a tampered token on a request whose body and query would fail as well
C17_Witness ==
  \E s \in Slots :
    /\ variant = 3 /\ OnAnalysisEndpoint(s) /\ Answered(s)
    /\ \E k \in tokens : req[s].auth = Bearer(Tampered(k))
    /\ req[s].body = JsonNull
    /\ req[s].query.summarize = Str("v1")
    /\ resp[s].status = 401
    /\ calls[s] = <<>>

\* C18: every request handed to handleRequest is answered in the end,
\* whatever other request is in flight, provided its remote call (when one
\* is made) returns or throws; the handler ends with a response in every
\* case, exceptions of handleAnalysis included;
\* the response of a request is set once; and no response body has both a
\* results key and an error key.
C18_OneResponse ==
  /\ \A s \in Slots : (pc[s] /= "idle") ~> Answered(s)
  /\ [](\A s \in Slots :
          /\ Answered(s) <=> resp[s] /= NoResponse
          /\ Answered(s) =>
               /\ resp[s].status \in {200, 204, 400, 401, 404, 500, 502}
               /\ ~({"results", "error"} \subseteq DOMAIN resp[s].body)
          /\ exc[s] /= NoError =>
               Answered(s) /\ DOMAIN resp[s].body = {"error"})
  /\ [][\A s \in Slots :
          resp[s] /= NoResponse =>
            \/ resp'[s] = resp[s]
            \/ pc'[s] = "idle" /\ resp'[s] = NoResponse]_vars

\* a request answered after its remote call threw
C18_Witness ==
  \E s \in Slots :
    /\ Answered(s)
    /\ reply[s].kind = "throw"
    /\ exc[s] /= NoError
    /\ resp[s].status = 500
    /\ DOMAIN resp[s].body = {"error"}

====
